---- MODULE Spec2Model ----
(***************************************************************************)
(* A model of the contact-form validation engine of src/main.js: the two   *)
(* validation predicates, the error presenter, the blur / input / change   *)
(* listeners, the submit listener and its success path with the deferred   *)
(* hide of the success message; and of the navigation menu toggle.         *)
(*                                                                         *)
(* A string is a sequence of one-character strings.  Time is counted in    *)
(* milliseconds.  A timer callback runs when the clock reaches its due     *)
(* time (the deterministic timers the specification asks tests to use), so *)
(* no other event is taken while a timer is due.                           *)
(***************************************************************************)
EXTENDS Integers, Sequences, FiniteSets, TLC

VARIABLES
    elems,          \* ids of the elements present in the document
    value,          \* .value of the five text controls
    checked,        \* .checked of the consent checkbox
    errText,        \* textContent of each <id>Error element
    errShow,        \* whether each <id>Error element has class 'show'
    successDisplay, \* style.display of the successMessage element
    timers,         \* pending setTimeout callbacks: ms elapsed since each was set
    logged,         \* what the last listener run wrote with console.log
    threw,          \* whether the last listener run ended with an exception
    last,           \* the kind of the last event taken
    nav,            \* the navigation menu: classes, aria-expanded, links
    arg,            \* the argument handed to a function called on its own
    ret             \* the last result of a predicate called on its own

vars == <<elems, value, checked, errText, errShow, successDisplay, timers,
          logged, threw, last, nav, arg, ret>>

(***************************************************************************)
(* Bounds of the model.                                                    *)
(***************************************************************************)
MaxLen == 5
MaxTimers == 2

(***************************************************************************)
(* Strings.                                                                *)
(***************************************************************************)
WhiteSpace == {" ", "\t", "\n"}

Alphabet == {"a", " ", "\t", "@", "."}

Strings == UNION {[1..n -> Alphabet] : n \in 0..MaxLen}

Empty == <<>>

RECURSIVE TrimStart(_)
TrimStart(s) ==
    IF s # <<>> /\ Head(s) \in WhiteSpace THEN TrimStart(Tail(s)) ELSE s

RECURSIVE TrimEnd(_)
TrimEnd(s) ==
    IF s # <<>> /\ s[Len(s)] \in WhiteSpace
    THEN TrimEnd(SubSeq(s, 1, Len(s) - 1))
    ELSE s

\* String.prototype.trim
Trim(s) == TrimEnd(TrimStart(s))

(***************************************************************************)
(* The validation predicates.                                              *)
(***************************************************************************)
\* the character class [^\s@]
NotSpaceNorAt(c) == c \notin WhiteSpace /\ c # "@"

\* [^\s@]+ matches exactly s[i..j]
ClassRun(s, i, j) == i <= j /\ \A k \in i..j : NotSpaceNorAt(s[k])

\* the pattern without its '\.' part: /^[^\s@]+@[^\s@]+$/
EmailRegexNoDot(s) ==
    \E i \in 1..Len(s) :
        /\ s[i] = "@"
        /\ ClassRun(s, 1, i - 1)
        /\ ClassRun(s, i + 1, Len(s))

\* the pattern with '*' for its last '+': /^[^\s@]+@[^\s@]+\.[^\s@]*$/
EmailRegexEmptyTail(s) ==
    \E i \in 1..Len(s) : \E j \in 1..Len(s) :
        /\ i < j
        /\ s[i] = "@"
        /\ s[j] = "."
        /\ ClassRun(s, 1, i - 1)
        /\ ClassRun(s, i + 1, j - 1)
        /\ j = Len(s) \/ ClassRun(s, j + 1, Len(s))

\* /^[^\s@]+@[^\s@]+\.[^\s@]+$/.test(email)
EmailRegexTest(s) ==
    \E i \in 1..Len(s) : \E j \in 1..Len(s) :
        /\ i < j
        /\ s[i] = "@"
        /\ s[j] = "."
        /\ ClassRun(s, 1, i - 1)
        /\ ClassRun(s, i + 1, j - 1)
        /\ ClassRun(s, j + 1, Len(s))

isValidEmail(email) == EmailRegexTest(email)

\* the check without trim(): value.length > 0
IsFieldValidNoTrim(v) == Len(v) > 0

isFieldValid(v) == Len(Trim(v)) > 0

(***************************************************************************)
(* The document and the field rule table.                                  *)
(***************************************************************************)
Fields == <<"name", "email", "subject", "category", "message", "consent">>

FieldIds == {Fields[i] : i \in 1..Len(Fields)}

TextIds == FieldIds \ {"consent"}

\* fieldId + 'Error'
ErrorId(f) == f \o "Error"

AllElems == FieldIds \cup {ErrorId(f) : f \in FieldIds}
                     \cup {"contactForm", "successMessage"}

ErrorMsg(f) ==
    CASE f = "name"     -> "Please enter your full name"
      [] f = "email"    -> "Please enter a valid email address"
      [] f = "subject"  -> "Please enter a subject"
      [] f = "category" -> "Please select a category"
      [] f = "message"  -> "Please enter a message"
      [] f = "consent"  -> "You must agree to the Privacy Policy"

\* a delay of half a second
HideDelayShort == 5000 \div 10

HideDelay == 5000

\* the clock is observed every half delay
TickMs == HideDelay \div 2

\* the values the form's markup gives the controls, restored by form.reset()
DefaultValue == [f \in TextIds |-> Empty]

DefaultChecked == FALSE

\* the value attribute of a checkbox
CheckboxValue == <<"o", "n">>

\* what the user can put into a control: a text input takes blank and
\* non-blank text, the email input an address with or without a dot after
\* the '@', the other controls are left empty or filled
ValuesOf(f) ==
    CASE f = "name"  -> {Empty, <<" ">>, <<"a">>}
      [] f = "email" -> {Empty, <<"a", "@", "a">>, <<"a", "@", "a", ".", "a">>}
      [] OTHER       -> {Empty, <<"a">>}

(***************************************************************************)
(* The navigation menu.  nav is [menu, toggle, aria, hrefs, path, active]: *)
(* whether navMenu and navToggle have class 'active', navToggle's          *)
(* aria-expanded attribute ("" while the markup sets none), the hrefs of   *)
(* the menu's .nav-link elements, window.location.pathname, and the hrefs  *)
(* of the links that have class 'active'.                                  *)
(***************************************************************************)
NavElems == {"navToggle", "navMenu"}

NavPaths == {"/", "/about.html", "/contact.html"}

\* a page on which the script finds no navigation
NoNav == [menu |-> FALSE, toggle |-> FALSE, aria |-> "", hrefs |-> {},
          path |-> "/", active |-> {}]

\* if (!navToggle || !navMenu) return;
NavWired == NavElems \subseteq elems

\* setAttribute('aria-expanded', isExpanded) stores the boolean as a string
BooleanString(b) == IF b THEN "true" ELSE "false"

\* the click listener of navToggle
ToggleListener(n) ==
    LET isExpanded == ~n.toggle
    IN  [n EXCEPT !.menu = ~n.menu,
                  !.toggle = isExpanded,
                  !.aria = BooleanString(isExpanded)]

CloseMenu(n) == [n EXCEPT !.menu = FALSE, !.toggle = FALSE, !.aria = "false"]

\* the click listener of each .nav-link
LinkListener(n) == CloseMenu(n)

\* navToggle.contains(event.target)
InToggle(target) == target = "toggle"

\* navMenu.contains(event.target)
InMenu(target) == target \in {"link", "menu"}

\* the document listener closing on every click that is not inside navMenu
DocumentListenerMenuOnly(n, target) ==
    IF ~InMenu(target) THEN CloseMenu(n) ELSE n

\* the click listener of document
DocumentListener(n, target) ==
    IF ~InToggle(target) /\ ~InMenu(target) THEN CloseMenu(n) ELSE n

\* the listeners a click runs on its way from its target up to document
TargetListener(n, target) ==
    CASE target = "toggle" -> ToggleListener(n)
      [] target = "link"   -> LinkListener(n)
      [] OTHER             -> n

\* a click on target; without navToggle or navMenu no listener is attached
Click(target) ==
    /\ nav' = IF NavWired
              THEN DocumentListener(TargetListener(nav, target), target)
              ELSE nav
    /\ last' = "click:" \o target
    /\ UNCHANGED <<elems, value, checked, errText, errShow, successDisplay,
                   timers, logged, threw, arg, ret>>

ClickToggle == "navToggle" \in elems /\ Click("toggle")

ClickLink == "navMenu" \in elems /\ nav.hrefs # {} /\ Click("link")

ClickMenu == "navMenu" \in elems /\ Click("menu")

ClickOutside == Click("outside")

(***************************************************************************)
(* The error presenter.  An error state e is [text, show], one entry per   *)
(* field.                                                                  *)
(***************************************************************************)
\* the presenter adding the class without setting the message
ShowFieldErrorNoText(e, fieldId, message) ==
    IF ErrorId(fieldId) \in elems
    THEN [text |-> e.text,
          show |-> [e.show EXCEPT ![fieldId] = TRUE]]
    ELSE e

showFieldError(e, fieldId, message) ==
    IF ErrorId(fieldId) \in elems
    THEN [text |-> [e.text EXCEPT ![fieldId] = message],
          show |-> [e.show EXCEPT ![fieldId] = TRUE]]
    ELSE e

\* the presenter emptying the message without removing the class
ClearFieldErrorTextOnly(e, fieldId) ==
    IF ErrorId(fieldId) \in elems
    THEN [text |-> [e.text EXCEPT ![fieldId] = ""],
          show |-> e.show]
    ELSE e

\* the presenter removing the class without emptying the message
ClearFieldErrorClassOnly(e, fieldId) ==
    IF ErrorId(fieldId) \in elems
    THEN [text |-> e.text,
          show |-> [e.show EXCEPT ![fieldId] = FALSE]]
    ELSE e

\* the presenter calling classList.toggle('show') for classList.remove('show')
ClearFieldErrorToggle(e, fieldId) ==
    IF ErrorId(fieldId) \in elems
    THEN [text |-> [e.text EXCEPT ![fieldId] = ""],
          show |-> [e.show EXCEPT ![fieldId] = ~e.show[fieldId]]]
    ELSE e

clearFieldError(e, fieldId) ==
    IF ErrorId(fieldId) \in elems
    THEN [text |-> [e.text EXCEPT ![fieldId] = ""],
          show |-> [e.show EXCEPT ![fieldId] = FALSE]]
    ELSE e

Errors == [text |-> errText, show |-> errShow]

(***************************************************************************)
(* Reading and validating a control.                                       *)
(***************************************************************************)
ElementValue(f) == IF f = "consent" THEN CheckboxValue ELSE value[f]

\* element.value || (element.type === 'checkbox' ? element.checked : '')
ReadValue(f) ==
    LET v == ElementValue(f)
    IN  IF v # Empty THEN v
        ELSE IF f = "consent" THEN checked ELSE Empty

\* the consent rule deciding on the value it is handed instead of .checked
ValidateByValue(f, v) ==
    CASE f = "email"   -> isValidEmail(v)
      [] f = "consent" -> v # Empty
      [] OTHER         -> isFieldValid(v)

\* fields[f].validate
Validate(f, v) ==
    CASE f = "email"   -> isValidEmail(v)
      [] f = "consent" -> checked
      [] OTHER         -> isFieldValid(v)

\* one pass of the listeners' if / else on field f
ValidateField(e, f) ==
    IF ~Validate(f, ReadValue(f))
    THEN showFieldError(e, f, ErrorMsg(f))
    ELSE clearFieldError(e, f)

NoTimerDue == \A k \in 1..Len(timers) : timers[k] < HideDelay

Wired(f) == "contactForm" \in elems /\ f \in elems

(***************************************************************************)
(* The listeners of a field.                                               *)
(***************************************************************************)
Blur(f) ==
    /\ Wired(f)
    /\ NoTimerDue
    /\ LET e == ValidateField(Errors, f)
       IN  /\ errText' = e.text
           /\ errShow' = e.show
    /\ logged' = <<>>
    /\ threw' = FALSE
    /\ last' = "blur"
    /\ UNCHANGED <<elems, nav, value, checked, successDisplay, timers, arg, ret>>

\* a text control edited with no 'input' listener attached
InputEventNoClear(f) ==
    /\ f \in TextIds
    /\ Wired(f)
    /\ NoTimerDue
    /\ \E v \in ValuesOf(f) : value' = [value EXCEPT ![f] = v]
    /\ logged' = <<>>
    /\ threw' = FALSE
    /\ last' = "input"
    /\ UNCHANGED <<elems, nav, checked, errText, errShow, successDisplay, timers,
                   arg, ret>>

\* the user edits a text control: the control takes the new value, then the
\* 'input' listener runs
InputEvent(f) ==
    /\ f \in TextIds
    /\ Wired(f)
    /\ NoTimerDue
    /\ \E v \in ValuesOf(f) : value' = [value EXCEPT ![f] = v]
    /\ LET e == clearFieldError(Errors, f)
       IN  /\ errText' = e.text
           /\ errShow' = e.show
    /\ logged' = <<>>
    /\ threw' = FALSE
    /\ last' = "input"
    /\ UNCHANGED <<elems, nav, checked, successDisplay, timers, arg, ret>>

\* the checkbox clicked with no 'input' listener attached
InputConsentNoClear ==
    /\ Wired("consent")
    /\ NoTimerDue
    /\ checked' = ~checked
    /\ logged' = <<>>
    /\ threw' = FALSE
    /\ last' = "input"
    /\ UNCHANGED <<elems, nav, value, errText, errShow, successDisplay, timers,
                   arg, ret>>

\* the user clicks the checkbox: it toggles, then the 'input' listener runs
InputConsent ==
    /\ Wired("consent")
    /\ NoTimerDue
    /\ checked' = ~checked
    /\ LET e == clearFieldError(Errors, "consent")
       IN  /\ errText' = e.text
           /\ errShow' = e.show
    /\ logged' = <<>>
    /\ threw' = FALSE
    /\ last' = "input"
    /\ UNCHANGED <<elems, nav, value, successDisplay, timers, arg, ret>>

\* the 'change' listener: the control already holds the committed value
ChangeEvent(f) ==
    /\ Wired(f)
    /\ NoTimerDue
    /\ LET e == clearFieldError(Errors, f)
       IN  /\ errText' = e.text
           /\ errShow' = e.show
    /\ logged' = <<>>
    /\ threw' = FALSE
    /\ last' = "change"
    /\ UNCHANGED <<elems, nav, value, checked, successDisplay, timers, arg, ret>>

(***************************************************************************)
(* The submit listener.                                                    *)
(***************************************************************************)
\* the loop leaving at the first field that fails
RECURSIVE ValidateAllShortCircuit(_, _)
ValidateAllShortCircuit(i, st) ==
    IF i > Len(Fields) \/ ~st.isFormValid THEN st
    ELSE LET f == Fields[i]
         IN  IF f \notin elems
             THEN [st EXCEPT !.threw = TRUE]
             ELSE ValidateAllShortCircuit(i + 1,
                      [err         |-> ValidateField(st.err, f),
                       isFormValid |-> st.isFormValid /\ Validate(f, ReadValue(f)),
                       threw       |-> FALSE])

\* the loop assigning isFormValid from each field in turn, so that the last
\* field alone decides
RECURSIVE ValidateAllLastWins(_, _)
ValidateAllLastWins(i, st) ==
    IF i > Len(Fields) THEN st
    ELSE LET f == Fields[i]
         IN  IF f \notin elems
             THEN [st EXCEPT !.threw = TRUE]
             ELSE ValidateAllLastWins(i + 1,
                      [err         |-> ValidateField(st.err, f),
                       isFormValid |-> Validate(f, ReadValue(f)),
                       threw       |-> FALSE])

\* Object.entries(fields).forEach(...) from the i-th field on; reading
\* .value of a missing element raises a TypeError, which ends the listener
RECURSIVE ValidateAll(_, _)
ValidateAll(i, st) ==
    IF i > Len(Fields) THEN st
    ELSE LET f == Fields[i]
         IN  IF f \notin elems
             THEN [st EXCEPT !.threw = TRUE]
             ELSE ValidateAll(i + 1,
                      [err        |-> ValidateField(st.err, f),
                       isFormValid |-> st.isFormValid /\ Validate(f, ReadValue(f)),
                       threw      |-> FALSE])

PayloadIds == {"name", "email", "subject", "category", "message"}

\* the object literal handed to console.log, read from the given control values
Payload(val) == [f \in PayloadIds |-> val[f]]

Submit ==
    /\ "contactForm" \in elems
    /\ NoTimerDue
    /\ LET r == ValidateAll(1, [err |-> Errors, isFormValid |-> TRUE, threw |-> FALSE])
       IN  /\ errText' = r.err.text
           /\ errShow' = r.err.show
           /\ threw' = r.threw
           /\ IF r.isFormValid /\ ~r.threw
              THEN /\ Len(timers) < MaxTimers
                   /\ successDisplay' = IF "successMessage" \in elems
                                        THEN "block" ELSE successDisplay
                   \* form.reset()
                   /\ value' = DefaultValue
                   /\ checked' = DefaultChecked
                   \* setTimeout(..., 5000)
                   /\ timers' = Append(timers, 0)
                   /\ logged' = <<"Form submitted successfully", Payload(value')>>
              ELSE /\ logged' = <<>>
                   /\ UNCHANGED <<value, checked, successDisplay, timers>>
    /\ last' = "submit"
    /\ UNCHANGED <<elems, nav, arg, ret>>

(***************************************************************************)
(* Time and the deferred hide.                                             *)
(***************************************************************************)
Tick ==
    /\ timers # <<>>
    /\ \A k \in 1..Len(timers) : timers[k] + TickMs <= HideDelay
    /\ timers' = [k \in 1..Len(timers) |-> timers[k] + TickMs]
    /\ UNCHANGED <<elems, nav, value, checked, errText, errShow, successDisplay,
                   logged, threw, last, arg, ret>>

\* a callback that leaves the message as it is
TimerFireNoHide ==
    /\ timers # <<>>
    /\ Head(timers) >= HideDelay
    /\ timers' = Tail(timers)
    /\ logged' = <<>>
    /\ threw' = FALSE
    /\ last' = "timer"
    /\ UNCHANGED <<elems, nav, value, checked, errText, errShow, successDisplay,
                   arg, ret>>

\* the callback handed to setTimeout
TimerFire ==
    /\ timers # <<>>
    /\ Head(timers) >= HideDelay
    /\ timers' = Tail(timers)
    /\ successDisplay' = IF "successMessage" \in elems
                         THEN "none" ELSE successDisplay
    /\ logged' = <<>>
    /\ threw' = FALSE
    /\ last' = "timer"
    /\ UNCHANGED <<elems, nav, value, checked, errText, errShow, arg, ret>>

(***************************************************************************)
(* The page as loaded, with every element the script looks up.             *)
(***************************************************************************)
InitForm ==
    /\ value = DefaultValue
    /\ checked = DefaultChecked
    /\ errText = [f \in FieldIds |-> ""]
    /\ errShow = [f \in FieldIds |-> FALSE]
    /\ successDisplay = ""
    /\ timers = <<>>
    /\ logged = <<>>
    /\ threw = FALSE
    /\ last = "load"
    /\ nav = NoNav
    /\ arg = Empty
    /\ ret = [fn |-> "none", out |-> FALSE]

Init ==
    /\ elems = AllElems
    /\ InitForm

Next ==
    \/ \E f \in FieldIds : Blur(f)
    \/ \E f \in FieldIds : InputEvent(f)
    \/ InputConsent
    \/ \E f \in FieldIds : ChangeEvent(f)
    \/ Submit
    \/ Tick
    \/ TimerFire

Spec == Init /\ [][Next]_vars

\* time passes, and the event loop runs a callback that is due
SpecLive == Init /\ [][Next]_vars /\ WF_vars(Tick) /\ WF_vars(TimerFire)

(***************************************************************************)
(* The page as loaded, seen from initializeNavigation: with or without     *)
(* navToggle and navMenu, a closed menu with any of the paths as links,    *)
(* any of them marked active in the markup, at any of the paths.           *)
(***************************************************************************)
InitNav ==
    /\ \E N \in SUBSET NavElems : elems = AllElems \cup N
    /\ \E hrefs \in SUBSET NavPaths : \E path \in NavPaths :
       \E markup \in SUBSET hrefs : \E aria \in {"", "false"} :
          /\ "navMenu" \notin elems => hrefs = {}
          /\ nav = [menu   |-> FALSE,
                    toggle |-> FALSE,
                    aria   |-> aria,
                    hrefs  |-> hrefs,
                    path   |-> path,
                    \* link.classList.remove('active'), then add where
                    \* href === currentPath
                    active |-> IF NavWired
                               THEN {h \in hrefs : h = path}
                               ELSE markup]
    /\ value = DefaultValue
    /\ checked = DefaultChecked
    /\ errText = [f \in FieldIds |-> ""]
    /\ errShow = [f \in FieldIds |-> FALSE]
    /\ successDisplay = ""
    /\ timers = <<>>
    /\ logged = <<>>
    /\ threw = FALSE
    /\ last = "load"
    /\ arg = Empty
    /\ ret = [fn |-> "none", out |-> FALSE]

NextNav ==
    \/ ClickToggle
    \/ ClickLink
    \/ ClickMenu
    \/ ClickOutside

SpecNav == InitNav /\ [][NextNav]_vars

(***************************************************************************)
(* A page that lacks one of the elements the script looks up.              *)
(***************************************************************************)
InitDegraded ==
    /\ \E x \in AllElems : elems = AllElems \ {x}
    /\ InitForm

SpecDegraded == InitDegraded /\ [][Next]_vars

(***************************************************************************)
(* The predicates called on their own, on every string of the alphabet up  *)
(* to MaxLen characters and on the specification's examples.               *)
(***************************************************************************)
UserAtExampleCom ==
    <<"u", "s", "e", "r", "@", "e", "x", "a", "m", "p", "l", "e", ".", "c", "o", "m">>

UserAtExample ==
    <<"u", "s", "e", "r", "@", "e", "x", "a", "m", "p", "l", "e">>

UserSpaceExampleCom ==
    <<"u", "s", "e", "r", " ", "e", "x", "a", "m", "p", "l", "e", ".", "c", "o", "m">>

Examples == {UserAtExampleCom, UserAtExample, UserSpaceExampleCom}

Inputs == Strings \cup Examples

CallIsFieldValid ==
    /\ ret' = [fn |-> "isFieldValid", out |-> isFieldValid(arg)]
    /\ UNCHANGED <<elems, nav, value, checked, errText, errShow, successDisplay,
                   timers, logged, threw, last, arg>>

CallIsValidEmail ==
    /\ ret' = [fn |-> "isValidEmail", out |-> isValidEmail(arg)]
    /\ UNCHANGED <<elems, nav, value, checked, errText, errShow, successDisplay,
                   timers, logged, threw, last, arg>>

InitPred ==
    /\ elems = AllElems
    /\ value = DefaultValue
    /\ checked = DefaultChecked
    /\ errText = [f \in FieldIds |-> ""]
    /\ errShow = [f \in FieldIds |-> FALSE]
    /\ successDisplay = ""
    /\ timers = <<>>
    /\ logged = <<>>
    /\ threw = FALSE
    /\ last = "load"
    /\ nav = NoNav
    /\ arg \in Inputs
    /\ ret = [fn |-> "none", out |-> FALSE]

NextPred ==
    \/ CallIsFieldValid
    \/ CallIsValidEmail

SpecPred == InitPred /\ [][NextPred]_vars

(***************************************************************************)
(* The predicates of the rule table called on their own with any string or *)
(* boolean.  An argument is [t, v]: its type and its value.                *)
(***************************************************************************)
JsString(s) == [t |-> "string", v |-> s]

JsBoolean(b) == [t |-> "boolean", v |-> b]

\* the conversion RegExp.prototype.test applies to its argument
JsToString(a) ==
    IF a.t = "string" THEN a.v
    ELSE IF a.v THEN <<"t", "r", "u", "e">> ELSE <<"f", "a", "l", "s", "e">>

TrimRules == {"name", "subject", "category", "message"}

\* a validator that calls .trim() on its argument before the pattern test too
RuleThrowsEmailToo(f, a) == f \in TrimRules \cup {"email"} /\ a.t # "string"

\* value.trim is not a function unless value is a string: the call raises a
\* TypeError
RuleThrows(f, a) == f \in TrimRules /\ a.t # "string"

CallRule(f) ==
    /\ threw' = RuleThrows(f, arg)
    \* a call that raises returns nothing: out is then left FALSE
    /\ ret' = [fn  |-> f,
               out |-> IF RuleThrows(f, arg) THEN FALSE
                       ELSE Validate(f, JsToString(arg))]
    /\ last' = "call"
    /\ UNCHANGED <<elems, nav, value, checked, errText, errShow, successDisplay,
                   timers, logged, arg>>

InitRule ==
    /\ elems = AllElems
    /\ value = DefaultValue
    /\ checked \in BOOLEAN
    /\ errText = [f \in FieldIds |-> ""]
    /\ errShow = [f \in FieldIds |-> FALSE]
    /\ successDisplay = ""
    /\ timers = <<>>
    /\ logged = <<>>
    /\ threw = FALSE
    /\ last = "load"
    /\ nav = NoNav
    /\ \/ \E s \in Inputs : arg = JsString(s)
       \/ \E b \in BOOLEAN : arg = JsBoolean(b)
    /\ ret = [fn |-> "none", out |-> FALSE]

NextRule == \E f \in FieldIds : CallRule(f)

SpecRule == InitRule /\ [][NextRule]_vars

(***************************************************************************)
(* The error presenter called on its own, for the field arg, on a page     *)
(* with every element or without one of the <id>Error elements, from every *)
(* combination of shown and cleared annotations.                           *)
(***************************************************************************)
CallShowFieldError ==
    /\ LET e == showFieldError(Errors, arg, ErrorMsg(arg))
       IN  /\ errText' = e.text
           /\ errShow' = e.show
    /\ threw' = FALSE
    /\ last' = "showFieldError"
    /\ UNCHANGED <<elems, nav, value, checked, successDisplay, timers, logged,
                   arg, ret>>

CallClearFieldError ==
    /\ LET e == clearFieldError(Errors, arg)
       IN  /\ errText' = e.text
           /\ errShow' = e.show
    /\ threw' = FALSE
    /\ last' = "clearFieldError"
    /\ UNCHANGED <<elems, nav, value, checked, successDisplay, timers, logged,
                   arg, ret>>

InitPresenter ==
    /\ \E M \in {{}} \cup {{ErrorId(f)} : f \in FieldIds} : elems = AllElems \ M
    /\ errShow \in {s \in [FieldIds -> BOOLEAN] :
                        \A f \in FieldIds : s[f] => ErrorId(f) \in elems}
    /\ errText = [f \in FieldIds |-> IF errShow[f] THEN ErrorMsg(f) ELSE ""]
    /\ value = DefaultValue
    /\ checked = DefaultChecked
    /\ successDisplay = ""
    /\ timers = <<>>
    /\ logged = <<>>
    /\ threw = FALSE
    /\ last = "load"
    /\ nav = NoNav
    /\ arg \in FieldIds
    /\ ret = [fn |-> "none", out |-> FALSE]

NextPresenter ==
    \/ CallShowFieldError
    \/ CallClearFieldError

SpecPresenter == InitPresenter /\ [][NextPresenter]_vars

(***************************************************************************)
(* Notions the properties are stated in.                                   *)
(***************************************************************************)
\* the fields whose predicate fails on the value they hold
Failing == {f \in FieldIds : ~Validate(f, ReadValue(f))}

Shown == {f \in FieldIds : errShow[f]}

\* the annotation of field g is the same after the step as before
SameAnnotation(g) == errShow'[g] = errShow[g] /\ errText'[g] = errText[g]

InputOrChangeOn(f) ==
    \/ InputEvent(f)
    \/ f = "consent" /\ InputConsent
    \/ ChangeEvent(f)

HasBlank(s) == \E k \in 1..Len(s) : s[k] \in WhiteSpace

HasNonBlank(s) == \E k \in 1..Len(s) : s[k] \notin WhiteSpace

HasAt(s) == \E k \in 1..Len(s) : s[k] = "@"

HasDotAfterAt(s) ==
    \E i \in 1..Len(s) : \E j \in 1..Len(s) : i < j /\ s[i] = "@" /\ s[j] = "."

AtPositions(s) == {k \in 1..Len(s) : s[k] = "@"}

\* s is L@D.P with L, D and P non-empty and free of whitespace and '@'
LocalAtDomainDotPart(s) ==
    /\ ~HasBlank(s)
    /\ Cardinality(AtPositions(s)) = 1
    /\ \E i \in AtPositions(s) :
          /\ i > 1
          /\ \E j \in (i + 2)..(Len(s) - 1) : s[j] = "."

(***************************************************************************)
(* C1.  A submit while the consent checkbox is unchecked, whatever the     *)
(* other five fields hold, does not take the success path: the success     *)
(* message's display is left as it was, the form is not reset, no hide     *)
(* timer is scheduled, nothing is logged, and the consent error is shown.  *)
(***************************************************************************)
C1_ConsentBlocksSuccess ==
    [][(Submit /\ ~checked) =>
          /\ successDisplay' = successDisplay
          /\ value' = value
          /\ checked' = checked
          /\ timers' = timers
          /\ logged' = <<>>
          /\ errShow'["consent"]
          /\ errText'["consent"] = ErrorMsg("consent")]_vars

\* after a submit with the five text fields valid and consent unchecked
C1_Witness ==
    /\ last = "submit"
    /\ timers = <<>>
    /\ successDisplay = ""
    /\ ~checked
    /\ Failing = {"consent"}
    /\ errShow["consent"]
    /\ value # DefaultValue

(***************************************************************************)
(* C2.  A submit in which all six fields pass makes the success message    *)
(* visible, resets every control and schedules the hide; the scheduled     *)
(* callback runs when exactly 5000 ms have elapsed since that submit and   *)
(* sets the message's display to 'none'.                                   *)
(***************************************************************************)
C2_SuccessShowsResetsHides ==
    [][/\ (Submit /\ Failing = {}) =>
              /\ successDisplay' = "block"
              /\ value' = DefaultValue
              /\ checked' = DefaultChecked
              /\ timers' = Append(timers, 0)
       /\ (\E k \in 1..Len(timers) : timers[k] >= 5000) => TimerFire
       /\ TimerFire => /\ Head(timers) = 5000
                       /\ successDisplay' = "none"]_vars

\* the hide callback of a successful submit has run
C2_Witness ==
    /\ last = "timer"
    /\ timers = <<>>
    /\ successDisplay = "none"
    /\ value = DefaultValue
    /\ ~checked

(***************************************************************************)
(* C3.  A submit in which exactly one field fails its predicate leaves     *)
(* exactly that field's error shown, and the annotation (text and 'show')  *)
(* of each of the other five fields is after the submit what it was        *)
(* before.                                                                 *)
(***************************************************************************)
C3_OneFailureOneError ==
    [][(Submit /\ Cardinality(Failing) = 1) =>
          /\ {f \in FieldIds : errShow'[f]} = Failing
          /\ \A g \in FieldIds \ Failing : SameAnnotation(g)]_vars

\* after a submit in which only the subject was invalid
C3_Witness ==
    /\ last = "submit"
    /\ timers = <<>>
    /\ Failing = {"subject"}
    /\ Shown = {"subject"}
    /\ errText["subject"] = ErrorMsg("subject")

(***************************************************************************)
(* C4.  A submit evaluates all six fields: after it, each field's error is *)
(* shown with the field's own message if and only if the field's predicate *)
(* failed on the value it held at the submit, and is cleared otherwise.    *)
(***************************************************************************)
C4_SubmitValidatesAll ==
    [][Submit =>
          \A f \in FieldIds :
              /\ errShow'[f] <=> f \in Failing
              /\ errText'[f] = IF f \in Failing THEN ErrorMsg(f) ELSE ""]_vars

\* after a submit in which the first and the last field of the table failed
\* and two fields between them passed
C4_Witness ==
    /\ last = "submit"
    /\ timers = <<>>
    /\ successDisplay = ""
    /\ Failing = {"name", "subject", "consent"}
    /\ Shown = {"name", "subject", "consent"}

(***************************************************************************)
(* C5.  On a page that lacks the element of one field, the listeners of    *)
(* the fields that are present still validate and clear, and no listener   *)
(* raises: a submit ends without an exception and has validated every      *)
(* field that is present.                                                  *)
(***************************************************************************)
C5_MissingFieldDegradesSilently ==
    [][(FieldIds \ elems # {} /\ "contactForm" \in elems) =>
          /\ ~threw'
          /\ \A f \in FieldIds \cap elems :
                /\ Blur(f) => (errShow'[f] <=> f \in Failing)
                /\ InputOrChangeOn(f) => ~errShow'[f]
                /\ Submit => (errShow'[f] <=> f \in Failing)]_vars

(***************************************************************************)
(* C6.  On the success path the record that is logged holds, under name,   *)
(* email, subject, category and message, the values those five controls    *)
(* held when the submit passed validation, and has no consent entry.       *)
(***************************************************************************)
C6_LoggedPayloadIsSubmitted ==
    [][(Submit /\ Failing = {}) =>
          /\ Len(logged') = 2
          /\ DOMAIN logged'[2] = PayloadIds
          /\ \A f \in PayloadIds : logged'[2][f] = value[f]]_vars

(***************************************************************************)
(* C7.  An input or change event on a field whose error is shown clears    *)
(* that annotation (empty text, no 'show') whatever the control then       *)
(* holds, and changes no other field's annotation; an annotation that is   *)
(* not shown becomes shown only by a blur on its field or a submit, taken  *)
(* while the field's predicate fails.                                      *)
(***************************************************************************)
C7_InputClearsError ==
    [][\A f \in FieldIds :
          /\ (InputOrChangeOn(f) /\ errShow[f]) =>
                /\ ~errShow'[f]
                /\ errText'[f] = ""
                /\ \A g \in FieldIds \ {f} : SameAnnotation(g)
          /\ (~errShow[f] /\ errShow'[f]) =>
                /\ Blur(f) \/ Submit
                /\ f \in Failing]_vars

\* right after an edit of the name that left it blank: the name's error is
\* cleared although its predicate fails, every other error is still shown
C7_Witness ==
    /\ last = "input"
    /\ value["name"] = <<" ">>
    /\ "name" \in Failing
    /\ Shown = FieldIds \ {"name"}
    /\ errText["name"] = ""

(***************************************************************************)
(* C8.  A blur on a wired field f shows f's error with f's message when    *)
(* f's predicate fails on the value f holds and clears f's annotation when *)
(* it passes; the annotations of the other fields, the controls' values    *)
(* and the success message are left as they were.                          *)
(***************************************************************************)
C8_BlurValidatesOneField ==
    [][\A f \in FieldIds :
          Blur(f) =>
              /\ f \in Failing => errShow'[f] /\ errText'[f] = ErrorMsg(f)
              /\ f \notin Failing => ~errShow'[f] /\ errText'[f] = ""
              /\ \A g \in FieldIds \ {f} : SameAnnotation(g)
              /\ value' = value
              /\ checked' = checked
              /\ successDisplay' = successDisplay]_vars

\* right after a blur on the email control holding an address without a dot,
\* while the success message of an earlier submit is displayed
C8_Witness ==
    /\ last = "blur"
    /\ value["email"] = <<"a", "@", "a">>
    /\ Shown = {"email"}
    /\ errText["email"] = ErrorMsg("email")
    /\ successDisplay = "block"

(***************************************************************************)
(* C9.  isFieldValid(s) is false for every string s that is empty or       *)
(* consists of whitespace only, and true for every string s that has a     *)
(* character that is not whitespace.                                       *)
(***************************************************************************)
C9_RequiredFieldPredicate ==
    ret.fn = "isFieldValid" =>
        /\ ~HasNonBlank(arg) => ret.out = FALSE
        /\ HasNonBlank(arg) => ret.out = TRUE

\* isFieldValid has answered for a string with blanks around a letter and
\* for a non-empty string of blanks
C9_Witness ==
    /\ ret.fn = "isFieldValid"
    /\ \/ arg = <<" ", "a", "\t">> /\ ret.out = TRUE
       \/ arg = <<"\t", " ">> /\ ret.out = FALSE

(***************************************************************************)
(* C10.  isValidEmail(s) is false for every string s without an '@' and    *)
(* for every string s without a '.' after an '@'; 'user@example.com' is    *)
(* accepted, 'user@example' and 'user example.com' are rejected.           *)
(***************************************************************************)
C10_EmailNeedsAtAndDot ==
    ret.fn = "isValidEmail" =>
        /\ ~HasAt(arg) => ret.out = FALSE
        /\ ~HasDotAfterAt(arg) => ret.out = FALSE
        /\ arg = UserAtExampleCom => ret.out = TRUE
        /\ arg = UserAtExample => ret.out = FALSE
        /\ arg = UserSpaceExampleCom => ret.out = FALSE

\* isValidEmail has rejected 'user@example'
C10_Witness ==
    /\ ret.fn = "isValidEmail"
    /\ arg = UserAtExample
    /\ ret.out = FALSE

(***************************************************************************)
(* C12.  The success message shown by a successful submit stays displayed  *)
(* until 5000 ms have elapsed since that submit: while the hide timer of a *)
(* submit is pending and younger than 5000 ms, the message is displayed,   *)
(* also when an earlier submit's timer was pending at that submit.         *)
(***************************************************************************)
C12_MessageStaysForDelay ==
    \A k \in 1..Len(timers) : timers[k] < 5000 => successDisplay = "block"

(***************************************************************************)
(* C13.  A submit in which at least one field fails its predicate changes  *)
(* only error annotations: the six controls' values, the success message's *)
(* display and the pending hide timers are what they were, and nothing is  *)
(* logged.                                                                 *)
(***************************************************************************)
C13_FailedSubmitFrame ==
    [][(Submit /\ Failing # {}) =>
          /\ value' = value
          /\ checked' = checked
          /\ successDisplay' = successDisplay
          /\ timers' = timers
          /\ logged' = <<>>]_vars

\* after a failed submit taken while the success message of an earlier
\* submit is displayed: the controls keep what the user entered since
C13_Witness ==
    /\ last = "submit"
    /\ value # DefaultValue
    /\ Failing # {}
    /\ Shown = Failing
    /\ successDisplay = "block"
    /\ timers # <<>>

(***************************************************************************)
(* C14.  Immediately after a successful submit every one of the six error  *)
(* annotations has empty text and no 'show' flag.                          *)
(***************************************************************************)
C14_SuccessLeavesNoError ==
    [][(Submit /\ Failing = {}) =>
          \A f \in FieldIds : ~errShow'[f] /\ errText'[f] = ""]_vars

\* right after a successful submit: its timer has just been set
C14_Witness ==
    /\ last = "submit"
    /\ Len(logged) = 2
    /\ timers # <<>>
    /\ timers[Len(timers)] = 0
    /\ Shown = {}
    /\ \A f \in FieldIds : errText[f] = ""

(***************************************************************************)
(* C17.  In every state reached by blur, input, change and submit events a *)
(* field whose error is shown fails its predicate on the value it holds:   *)
(* a shown error is never stale, also after the reset of a successful      *)
(* submit.                                                                 *)
(***************************************************************************)
C17_ShownErrorIsCurrent ==
    \A f \in FieldIds : errShow[f] => f \in Failing

\* after a successful submit reset the form, a blur on the emptied name and
\* on the unchecked consent showed their errors
C17_Witness ==
    /\ successDisplay = "block"
    /\ timers # <<>>
    /\ value = DefaultValue
    /\ last = "blur"
    /\ Shown = {"name", "consent"}

(***************************************************************************)
(* C18.  Whenever the success message is displayed a hide timer is         *)
(* pending; only a successful submit displays the message; and, time       *)
(* passing and due callbacks being run, a displayed message is eventually  *)
(* hidden.                                                                 *)
(***************************************************************************)
C18_MessageEventuallyHidden ==
    /\ [](successDisplay = "block" => timers # <<>>)
    /\ [][(successDisplay # "block" /\ successDisplay' = "block") =>
             (Submit /\ Failing = {})]_vars
    /\ (successDisplay = "block") ~> (successDisplay = "none")

\* every timer of two overlapping successful submits has fired and a later
\* failed submit found the message hidden
C18_Witness ==
    /\ successDisplay = "none"
    /\ timers = <<>>
    /\ last = "submit"
    /\ Failing # {}

(***************************************************************************)
(* C15.  isValidEmail(s) is true exactly when s is L@D.P with L, D and P   *)
(* non-empty and free of whitespace and '@': s has no whitespace, exactly  *)
(* one '@', not in first place, and after it a '.' that has at least one   *)
(* character between the '@' and itself and at least one after itself.     *)
(***************************************************************************)
C15_EmailShape ==
    ret.fn = "isValidEmail" => (ret.out = TRUE <=> LocalAtDomainDotPart(arg))

\* isValidEmail has accepted 'a@a.a' or a domain that is itself a dot, or
\* rejected an address that ends in its dot
C15_Witness ==
    /\ ret.fn = "isValidEmail"
    /\ \/ arg = <<"a", "@", "a", ".", "a">> /\ ret.out = TRUE
       \/ arg = <<"a", "@", ".", ".", "a">> /\ ret.out = TRUE
       \/ arg = <<"a", "@", "a", ".">> /\ ret.out = FALSE

(***************************************************************************)
(* C11.  clearFieldError called for a field whose annotation is not active *)
(* changes nothing (annotations, controls, success message) and raises     *)
(* nothing, also when the field's <id>Error element does not exist; a      *)
(* second call in a row changes nothing the first one left.                *)
(***************************************************************************)
C11_ClearIsIdempotent ==
    /\ [][(CallClearFieldError /\ ~errShow[arg] /\ errText[arg] = "") =>
             /\ errText' = errText
             /\ errShow' = errShow
             /\ ~threw'
             /\ UNCHANGED <<elems, nav, value, checked, successDisplay, timers>>]_vars
    /\ [][(CallClearFieldError /\ last = "clearFieldError") =>
             (errText' = errText /\ errShow' = errShow)]_vars

\* clearFieldError has returned for a field that has no <id>Error element,
\* while other fields' errors are shown
C11_Witness ==
    /\ last = "clearFieldError"
    /\ ErrorId(arg) \notin elems
    /\ ~errShow[arg]
    /\ ~threw
    /\ Shown # {}

(***************************************************************************)
(* C16, as claimed.  Each rule's predicate, called with any string or any  *)
(* boolean, returns a boolean and raises no exception.                     *)
(***************************************************************************)
C16_PredicatesTotal ==
    ret.fn \in FieldIds => (~threw /\ ret.out \in BOOLEAN)

(***************************************************************************)
(* C16, amended.  Called with any string, each rule's predicate returns a  *)
(* boolean and raises nothing; called with a boolean, isValidEmail and the *)
(* consent predicate return a boolean, and isFieldValid (name, subject,    *)
(* category, message) raises a TypeError.                                  *)
(***************************************************************************)
C16_PredicatesTotalOnStrings ==
    ret.fn \in FieldIds =>
        /\ threw <=> (arg.t = "boolean" /\ ret.fn \in TrimRules)
        /\ ~threw => ret.out \in BOOLEAN
        /\ (arg.t = "boolean" /\ ret.fn = "email") => ret.out = FALSE
        /\ ret.fn = "consent" => ret.out = checked

\* the email rule has answered for a boolean, and so has the consent rule
\* or a rule of a text field for a string
C16_Witness ==
    /\ ~threw
    /\ arg.t = "boolean"
    /\ \/ ret.fn = "email" /\ arg.v /\ ret.out = FALSE
       \/ ret.fn = "consent" /\ ~arg.v /\ checked /\ ret.out = TRUE

(***************************************************************************)
(* C19.  Starting from a closed menu, after any clicks on the toggle, on a *)
(* nav link or elsewhere, navMenu is active iff navToggle is, and          *)
(* aria-expanded is 'true' iff navToggle is active; a toggle click flips   *)
(* the state (the document listener it bubbles to does not close the       *)
(* menu); a nav-link click or an outside click leaves the menu closed.     *)
(***************************************************************************)
C19_NavMenuConsistent ==
    /\ [](/\ nav.menu <=> nav.toggle
          /\ nav.aria = "true" <=> nav.toggle)
    /\ [][NavWired =>
             /\ ClickToggle => (nav'.menu <=> ~nav.menu)
             /\ (ClickLink \/ ClickOutside) => ~nav'.menu]_vars

\* the menu is open right after a click on the toggle
C19_Witness ==
    /\ NavWired
    /\ last = "click:toggle"
    /\ nav.menu
    /\ nav.toggle
    /\ nav.aria = "true"

====
